---- MODULE Spec2Model ----
(***************************************************************************)
(* Model of the authentication subsystem of autopark                       *)
(* (src/src/auth/authentication.py, class AuthSystem): the users and       *)
(* auth_logs tables, the lockout counter, password hashing, the            *)
(* role -> permission map and the public operations authenticate,          *)
(* create_user, change_password, get_user_info, list_users, update_user,   *)
(* delete_user and close, and the opening of the store.                    *)
(*                                                                         *)
(* Time is counted in minutes.  In Spec, LockSpec and CloseSpec one action *)
(* is one complete call of a public method (the calls are made             *)
(* sequentially on one connection).  In ConcSpec authenticate calls made   *)
(* through separate connections to the same database file interleave, one  *)
(* action being one read or one committed write transaction of a call.     *)
(* GuiSpec is the start of the application (src/main.py): the login dialog *)
(* (src/src/gui/widgets.py), then the main window and the controls of its  *)
(* reference tab and of its journal tab (src/src/gui/main_window.py), on   *)
(* a PostgreSQL connection that main() has established and that stays      *)
(* usable; one action is one complete run of an event handler.  DbSpec is  *)
(* the DatabaseConnection object (src/src/database/connection.py): one     *)
(* action is one complete call of connect or disconnect.                   *)
(***************************************************************************)
EXTENDS Integers, Sequences, FiniteSets, TLC

VARIABLES
    users,       \* table users: username -> row (username is UNIQUE)
    seq,         \* sqlite_sequence of users: the largest id ever assigned
    auth_logs,   \* table auth_logs, in insertion order
    now,         \* the wall clock read by datetime.now()
    last,        \* the call made by the latest step, with its return value
    wrong_run,   \* history: per username, the number of wrong-password
                 \* authenticate calls made on the active account since its
                 \* counter was last 0
    conn,        \* self.conn: "open", or "closed" once close() has run
    inflight,    \* ConcSpec: per caller, the authenticate call it is in
                 \* the middle of (its position and its local variables)
    gui,         \* GuiSpec: the login dialog and the main window of main()
    journal,     \* GuiSpec: table journal of the PostgreSQL database, in
                 \* insertion order
    db           \* DbSpec: the DatabaseConnection object (connection,
                 \* cursor, stats)

vars ==
    <<users, seq, auth_logs, now, last, wrong_run, conn, inflight, gui,
      journal, db>>

(***************************************************************************)
(* Bounds of the model and the input sets of the calls.                    *)
(***************************************************************************)
MaxTime == 30       \* the clock stops advancing here
TickStep == 15      \* minutes that pass in a short Tick
MaxLog == 3         \* Spec makes no logging call once auth_logs is this long
MaxLogLock == 9     \* the same limit in LockSpec
MaxLogClose == 3    \* the same limit in CloseSpec
MaxLogConc == 7     \* ConcSpec starts no call once auth_logs is this long
MaxLogGui == 4      \* GuiSpec submits no login once auth_logs is this long
MaxId == 4          \* no account is created once this id has been assigned
MaxTrips == 2       \* no vehicle is released once journal has this many rows
MaxRetries == 3     \* the largest max_retries connect is called with
MaxAttempts == 6    \* no connect call once this many attempts were counted

Usernames == {"admin", "user"}
Passwords == {"admin123", "user123"}
Salts == {"s1", "s2"}
RoleInputs == {"admin", "user", "guest"}
NoAccountName == "nobody"   \* a username no account ever has
Procs == {1, 2}             \* the concurrent callers of ConcSpec
\* what the user types into the login dialog
UsernameTexts == {"", " ", "admin", "user", " admin "}
PasswordTexts == {"", "admin123", "user123"}
\* ids of table auto: the vehicles that can be released
Autos == {1, 2}
\* what psycopg2 and the server do in one connection attempt of connect
AttemptOutcomes ==
    {"refused", "bad_params", "lost", "bad_schema", "test_failed",
     "connected"}
\* keyword arguments passed to update_user
KwargInputs ==
    {[is_active |-> FALSE], [is_active |-> TRUE],
     [role |-> "admin"], [role |-> "user"], [role |-> "guest"],
     [username |-> "root"],
     [is_active |-> FALSE, login_attempts |-> 0, password_salt |-> "s1",
      locked_until |-> 0]}

(***************************************************************************)
(* Program constants.                                                      *)
(***************************************************************************)
NULL == -1          \* SQL NULL in an integer or timestamp column
NullText == "NULL"  \* SQL NULL in a text column
LockThreshold == 5
LockMinutes == 30
ValidRoles == {"admin", "user"}

PermissionFlags ==
    {"can_create", "can_read", "can_update", "can_delete",
     "can_manage_users", "can_manage_personnel", "can_manage_vehicles",
     "can_manage_routes", "can_manage_journal", "can_view_reports",
     "can_generate_reports", "can_export_data",
     "can_configure_system", "can_view_logs", "can_backup_restore"}

\* The value authenticate returns when it fails (Python None).
None == [tag |-> "None"]

\* The outcome of a call that lets an exception reach its caller.
Raised == [tag |-> "raise"]

\* except_handler catching nothing but sqlite3.IntegrityError, so that the
\* ProgrammingError of a closed connection reaches the caller.
except_handler_integrity_only(op) == Raised

\* What the `except Exception` handler of the public method op returns.
\* Every use of a closed connection raises sqlite3.ProgrammingError, which
\* the handler catches; the _log_auth_action call some handlers make fails
\* on the closed connection too and swallows its own exception.
except_handler(op) ==
    CASE op \in {"authenticate", "get_user_info"} -> None
      [] op = "list_users" -> << >>
      [] OTHER -> FALSE

(***************************************************************************)
(* Pure helpers.                                                           *)
(***************************************************************************)
\* PBKDF2-HMAC-SHA256 of (password, salt): collision-free on the model's
\* inputs, so the digest is represented by the pair it was derived from.
hash_password(password, salt) == <<password, salt>>

\* get_user_permissions with export granted to the user role.
get_user_permissions_export(role) ==
    IF role = "admin"
    THEN [f \in PermissionFlags |-> TRUE]
    ELSE [f \in PermissionFlags |->
            f \in {"can_read", "can_update", "can_manage_journal",
                   "can_view_reports", "can_generate_reports",
                   "can_export_data"}]

get_user_permissions(role) ==
    IF role = "admin"
    THEN [f \in PermissionFlags |-> TRUE]
    ELSE [f \in PermissionFlags |->
            f \in {"can_read", "can_update", "can_manage_journal",
                   "can_view_reports", "can_generate_reports"}]

\* One row of auth_logs (ip_address and user_agent are always NULL here).
LogRow(user_id, username, action, success) ==
    [user_id |-> user_id, username |-> username,
     action |-> action, success |-> success]

log_auth_action(L, user_id, username, action, success) ==
    Append(L, LogRow(user_id, username, action, success))

\* increment_login_attempts locking only above the threshold.
increment_login_attempts_late(U, u, t) ==
    LET attempts == U[u].login_attempts + 1
    IN  [U EXCEPT ![u].login_attempts = attempts,
                  ![u].locked_until =
                      IF attempts > LockThreshold THEN t + LockMinutes
                                                  ELSE U[u].locked_until]

\* increment_login_attempts locking only when the counter reaches the
\* threshold exactly.
increment_login_attempts_exact(U, u, t) ==
    LET attempts == U[u].login_attempts + 1
    IN  [U EXCEPT ![u].login_attempts = attempts,
                  ![u].locked_until =
                      IF attempts = LockThreshold THEN t + LockMinutes
                                                  ELSE U[u].locked_until]

\* increment_login_attempts locking one attempt early.
increment_login_attempts_early(U, u, t) ==
    LET attempts == U[u].login_attempts + 1
    IN  [U EXCEPT ![u].login_attempts = attempts,
                  ![u].locked_until =
                      IF attempts >= LockThreshold - 1 THEN t + LockMinutes
                                                       ELSE U[u].locked_until]

\* UPDATE users SET login_attempts = login_attempts + 1 WHERE id = ?, then
\* lock the row when the new counter has reached the threshold.
increment_login_attempts(U, u, t) ==
    LET attempts == U[u].login_attempts + 1
    IN  [U EXCEPT ![u].login_attempts = attempts,
                  ![u].locked_until =
                      IF attempts >= LockThreshold THEN t + LockMinutes
                                                   ELSE U[u].locked_until]

\* reset_login_attempts clearing the lock but not the counter.
reset_login_attempts_keep_counter(U, u) ==
    [U EXCEPT ![u].locked_until = NULL]

\* reset_login_attempts leaving the lock timestamp in place.
reset_login_attempts_keep_lock(U, u) ==
    [U EXCEPT ![u].login_attempts = 0]

reset_login_attempts(U, u) ==
    [U EXCEPT ![u].login_attempts = 0, ![u].locked_until = NULL]

update_last_login(U, u, t) ==
    [U EXCEPT ![u].last_login = t]

\* LockInForce with the lock still in force at locked_until itself.
LockInForceInclusive(row, t) ==
    row.locked_until # NULL /\ t <= row.locked_until

\* The lock check of authenticate: locked_until is set and still ahead.
LockInForce(row, t) ==
    row.locked_until # NULL /\ t < row.locked_until

\* UserInfo deriving is_admin and the permissions from the username.
UserInfoByName(u, row) ==
    [tag |-> "user_info", id |-> row.id, username |-> u, role |-> row.role,
     full_name |-> row.full_name, is_admin |-> (u = "admin"),
     permissions |-> get_user_permissions(IF u = "admin" THEN "admin"
                                          ELSE "user")]

\* The dict authenticate returns on success.
UserInfo(u, row) ==
    [tag |-> "user_info", id |-> row.id, username |-> u, role |-> row.role,
     full_name |-> row.full_name, is_admin |-> (row.role = "admin"),
     permissions |-> get_user_permissions(row.role)]

\* login_blocked counting the refused call as a failed attempt.
login_blocked_counting(U, L, row, username) ==
    [users |-> [U EXCEPT ![username].login_attempts = @ + 1],
     logs |-> log_auth_action(L, row.id, username, "login_blocked", FALSE),
     ret |-> None]

\* login_blocked returning a value of its own.
login_blocked_distinct(U, L, row, username) ==
    [users |-> U,
     logs |-> log_auth_action(L, row.id, username, "login_blocked", FALSE),
     ret |-> [tag |-> "Locked"]]

\* The branch of authenticate taken while the lock is in force.
login_blocked(U, L, row, username) ==
    [users |-> U,
     logs |-> log_auth_action(L, row.id, username, "login_blocked", FALSE),
     ret |-> None]

\* login_not_found recording the id of an inactive account.
login_not_found_with_id(U, L, username) ==
    [users |-> U,
     logs |-> log_auth_action(L,
                              IF username \in DOMAIN U THEN U[username].id
                              ELSE NULL,
                              username, "login", FALSE),
     ret |-> None]

\* The branch of authenticate taken when the SELECT ... WHERE username = ?
\* AND is_active = 1 returns no row.
login_not_found(U, L, username) ==
    [users |-> U,
     logs |-> log_auth_action(L, NULL, username, "login", FALSE),
     ret |-> None]

(***************************************************************************)
(* authenticate(username, password) at time t on tables U, L: the tables   *)
(* it leaves and the value it returns.                                     *)
(***************************************************************************)
authenticate(U, L, t, username, password) ==
    IF ~(username \in DOMAIN U /\ U[username].is_active)
    THEN login_not_found(U, L, username)
    ELSE LET row == U[username]
         IN  IF LockInForce(row, t)
             THEN login_blocked(U, L, row, username)
             ELSE IF hash_password(password, row.password_salt)
                        = row.password_hash
             THEN [users |-> update_last_login(
                                reset_login_attempts(U, username),
                                username, t),
                   logs |-> log_auth_action(L, row.id, username,
                                            "login", TRUE),
                   ret |-> UserInfo(username, row)]
             ELSE [users |-> increment_login_attempts(U, username, t),
                   logs |-> log_auth_action(L, row.id, username,
                                            "login", FALSE),
                   ret |-> None]

(***************************************************************************)
(* The history variable wrong_run after a step that leaves tables U2.      *)
(* bump is the username on which the step made a wrong-password            *)
(* authenticate call (on an active account), or "" if it made none.        *)
(***************************************************************************)
WrongPassword(U, username, password) ==
    /\ username \in DOMAIN U
    /\ U[username].is_active
    /\ hash_password(password, U[username].password_salt)
           # U[username].password_hash

NextRun(U2, bump) ==
    [u \in Usernames |->
        IF u \notin DOMAIN U2 \/ U2[u].login_attempts = 0 THEN 0
        ELSE IF u = bump THEN wrong_run[u] + 1
        ELSE wrong_run[u]]

(***************************************************************************)
(* Rows of users, and the opening of the store: AuthSystem() creates the   *)
(* tables if they do not exist and seeds the two default accounts through  *)
(* create_user when users is empty.  The initial state is the store        *)
(* opened on a new database file.                                          *)
(***************************************************************************)
\* NewRow with the digest derived without the stored salt.
NewRowUnsalted(id, password, salt, role, full_name, email) ==
    [id |-> id, password_hash |-> hash_password(password, ""),
     password_salt |-> salt, role |-> role, full_name |-> full_name,
     email |-> email, is_active |-> TRUE, last_login |-> NULL,
     login_attempts |-> 0, locked_until |-> NULL]

NewRow(id, password, salt, role, full_name, email) ==
    [id |-> id, password_hash |-> hash_password(password, salt),
     password_salt |-> salt, role |-> role, full_name |-> full_name,
     email |-> email, is_active |-> TRUE, last_login |-> NULL,
     login_attempts |-> 0, locked_until |-> NULL]

\* INSERT INTO users: the row gets the next AUTOINCREMENT id.
InsertUser(U, id, username, password, salt, role, full_name, email) ==
    [u \in DOMAIN U \cup {username} |->
        IF u = username
        THEN NewRow(id, password, salt, role, full_name, email)
        ELSE U[u]]

\* next_id of a table declared without AUTOINCREMENT: one more than the
\* largest id now in the table.
next_id_rowid(U, q) ==
    LET ids == {U[u].id : u \in DOMAIN U}
    IN  IF ids = {} THEN 1
        ELSE (CHOOSE i \in ids : \A j \in ids : j <= i) + 1

\* The id INSERT gives a new row of users: the column is INTEGER PRIMARY
\* KEY AUTOINCREMENT, so it is one more than the largest id ever assigned,
\* which sqlite_sequence (q) keeps across deletions.
next_id(U, q) == q + 1

\* The two default accounts of _create_default_users.
DefaultAdmin(U, id) ==
    InsertUser(U, id, "admin", "admin123", "s1", "admin",
               "Administrator", "admin@autopark.local")

DefaultUser(U, id) ==
    InsertUser(U, id, "user", "user123", "s2", "user",
               "Operator", "user@autopark.local")

\* create_default_users seeding whichever default account is missing.
create_default_users_any(U, q, L) ==
    LET a == "admin" \notin DOMAIN U
        qa == IF a THEN q + 1 ELSE q
        Ua == IF a THEN DefaultAdmin(U, qa) ELSE U
        La == IF a THEN log_auth_action(L, qa, "admin", "create_user", TRUE)
                   ELSE L
        b == "user" \notin DOMAIN U
        qb == IF b THEN qa + 1 ELSE qa
    IN  [users |-> IF b THEN DefaultUser(Ua, qb) ELSE Ua,
         seq |-> qb,
         logs |-> IF b THEN log_auth_action(La, qb, "user", "create_user",
                                            TRUE)
                  ELSE La]

\* _create_default_users on tables U, L with AUTOINCREMENT sequence q: when
\* SELECT COUNT(*) FROM users is 0 it calls create_user for admin and then
\* for user; otherwise it does nothing.
create_default_users(U, q, L) ==
    IF Cardinality(DOMAIN U) # 0
    THEN [users |-> U, seq |-> q, logs |-> L]
    ELSE LET a == next_id(U, q)
              Ua == DefaultAdmin(U, a)
              b == next_id(Ua, a)
         IN  [users |-> DefaultUser(Ua, b),
              seq |-> b,
              logs |-> log_auth_action(
                           log_auth_action(L, a, "admin", "create_user",
                                           TRUE),
                           b, "user", "create_user", TRUE)]

\* No caller of ConcSpec is inside a call.
Idle == [pc |-> "idle"]

\* main() has not created the main window.
NoWindow == [tag |-> "None"]

\* LoginDialog(auth_system) as constructed, before exec_() returns.
LoginDialog ==
    [result |-> "running", login_button |-> TRUE, status |-> "",
     user_info |-> None, window |-> NoWindow]

\* DatabaseConnection(config) as __init__ leaves it.
DatabaseConnection ==
    [connection |-> None, cursor |-> None,
     stats |-> [connection_attempts |-> 0, errors |-> 0]]

Init ==
    LET r == create_default_users(<< >>, 0, << >>)
    IN  /\ users = r.users
        /\ seq = r.seq
        /\ auth_logs = r.logs
        /\ now = 0
        /\ last = [op |-> "init"]
        /\ wrong_run = [u \in Usernames |-> 0]
        /\ conn = "open"
        /\ inflight = [p \in Procs |-> Idle]
        /\ gui = LoginDialog
        /\ journal = << >>
        /\ db = DatabaseConnection

(***************************************************************************)
(* Table updates of the other public methods.                              *)
(***************************************************************************)
\* DeleteRow deactivating the row instead of removing it.
DeleteRowSoft(U, username) ==
    [u \in DOMAIN U |->
        IF u = username THEN [U[u] EXCEPT !.is_active = FALSE] ELSE U[u]]

\* DELETE FROM users WHERE username = ?
DeleteRow(U, username) ==
    [u \in DOMAIN U \ {username} |-> U[u]]

\* auth_logs_on_delete with the ON DELETE SET NULL action carried out.
auth_logs_on_delete_set_null(L, user_id) ==
    [i \in 1..Len(L) |->
        IF L[i].user_id = user_id THEN [L[i] EXCEPT !.user_id = NULL]
        ELSE L[i]]

\* auth_logs after the users row with id user_id is deleted.  The table
\* declares FOREIGN KEY (user_id) ... ON DELETE SET NULL, but the connection
\* never turns foreign key enforcement on (SQLite leaves it off unless
\* PRAGMA foreign_keys = ON is issued), so the rows stay as they are.
auth_logs_on_delete(L, user_id) == L

\* StorePassword leaving the old salt in place.
StorePasswordKeepSalt(U, username, password, salt) ==
    IF username \in DOMAIN U
    THEN [U EXCEPT ![username].password_hash = hash_password(password, salt),
                   ![username].login_attempts = 0,
                   ![username].locked_until = NULL]
    ELSE U

\* UPDATE users SET password_hash, password_salt, login_attempts = 0,
\* locked_until = NULL WHERE username = ?
StorePassword(U, username, password, salt) ==
    IF username \in DOMAIN U
    THEN [U EXCEPT ![username].password_hash = hash_password(password, salt),
                   ![username].password_salt = salt,
                   ![username].login_attempts = 0,
                   ![username].locked_until = NULL]
    ELSE U

\* update_user: the keyword arguments that pass the allow-list.
allowed_fields == {"full_name", "email", "role", "is_active"}

\* ApplyKwargs clearing the lockout state when the account is activated.
ApplyKwargsResetting(row, kwargs) ==
    [f \in DOMAIN row |->
        IF f \in DOMAIN kwargs \cap allowed_fields THEN kwargs[f]
        ELSE IF "is_active" \in DOMAIN kwargs /\ kwargs.is_active
                /\ f = "login_attempts" THEN 0
        ELSE IF "is_active" \in DOMAIN kwargs /\ kwargs.is_active
                /\ f = "locked_until" THEN NULL
        ELSE row[f]]

\* The SET clause update_user builds from the allow-listed keyword
\* arguments.
ApplyKwargs(row, kwargs) ==
    [f \in DOMAIN row |->
        IF f \in DOMAIN kwargs \cap allowed_fields THEN kwargs[f] ELSE row[f]]

\* The CHECK(role IN ('admin', 'user')) constraint of table users.
RoleCheck(row) == row.role \in ValidRoles

\* UniqueViolation of a table without the UNIQUE constraint.
UniqueViolationIgnored(U, username) == FALSE

\* The UNIQUE constraint on users.username, as INSERT meets it.
UniqueViolation(U, username) == username \in DOMAIN U

\* change_password without the return on a failed authenticate.
change_password_unchecked(U, L, t, username, old_password, new_password, salt) ==
    LET r == authenticate(U, L, t, username, old_password)
    IN  IF r.ret = None
        THEN [users |-> StorePassword(r.users, username, new_password, salt),
              logs |-> r.logs, ret |-> FALSE]
        ELSE [users |-> StorePassword(r.users, username, new_password, salt),
              logs |-> log_auth_action(r.logs, r.ret.id, username,
                                       "change_password", TRUE),
              ret |-> TRUE]

\* change_password comparing the old password itself, without authenticate.
change_password_uncounted(U, L, t, username, old_password, new_password, salt) ==
    IF ~(/\ username \in DOMAIN U
         /\ U[username].is_active
         /\ hash_password(old_password, U[username].password_salt)
                = U[username].password_hash)
    THEN [users |-> U, logs |-> L, ret |-> FALSE]
    ELSE [users |-> StorePassword(U, username, new_password, salt),
          logs |-> log_auth_action(L, U[username].id, username,
                                   "change_password", TRUE),
          ret |-> TRUE]

\* change_password without its audit entry.
change_password_silent(U, L, t, username, old_password, new_password, salt) ==
    LET r == authenticate(U, L, t, username, old_password)
    IN  IF r.ret = None
        THEN [users |-> r.users, logs |-> r.logs, ret |-> FALSE]
        ELSE [users |-> StorePassword(r.users, username, new_password, salt),
              logs |-> r.logs, ret |-> TRUE]

\* change_password(username, old_password, new_password) at time t, with
\* salt the value _generate_salt draws: the tables it leaves and its result.
change_password(U, L, t, username, old_password, new_password, salt) ==
    LET r == authenticate(U, L, t, username, old_password)
    IN  IF r.ret = None
        THEN [users |-> r.users, logs |-> r.logs, ret |-> FALSE]
        ELSE [users |-> StorePassword(r.users, username, new_password, salt),
              logs |-> log_auth_action(r.logs, r.ret.id, username,
                                       "change_password", TRUE),
              ret |-> TRUE]

(***************************************************************************)
(* Actions: one per public method, plus the passage of time.               *)
(***************************************************************************)
\* A call made on a closed connection: it returns through its exception
\* handler and no table changes.
StorageFault(call) ==
    /\ last' = call
    /\ UNCHANGED <<users, seq, auth_logs, now, wrong_run, conn, inflight,
                   gui, journal, db>>

Authenticate(username, password) ==
    LET r == authenticate(users, auth_logs, now, username, password)
        call(ret) == [op |-> "authenticate", username |-> username,
                      password |-> password, ret |-> ret]
    IN  IF conn = "closed"
        THEN StorageFault(call(except_handler("authenticate")))
        ELSE /\ users' = r.users
             /\ auth_logs' = r.logs
             /\ last' = call(r.ret)
             /\ wrong_run' = NextRun(r.users,
                                 IF WrongPassword(users, username, password)
                                 THEN username ELSE "")
             /\ UNCHANGED <<seq, now, conn, inflight, gui, journal, db>>

CreateUser(username, password, role, salt) ==
    LET call(ret) == [op |-> "create_user", username |-> username,
                      password |-> password, role |-> role, ret |-> ret]
    IN  /\ seq < MaxId
        /\ IF role \notin ValidRoles
           THEN /\ last' = call(FALSE)
                /\ UNCHANGED <<users, seq, auth_logs, wrong_run>>
           ELSE IF conn = "closed"
           THEN /\ last' = call(except_handler("create_user"))
                /\ UNCHANGED <<users, seq, auth_logs, wrong_run>>
           ELSE IF UniqueViolation(users, username)
           THEN /\ last' = call(FALSE)
                /\ UNCHANGED <<users, seq, auth_logs, wrong_run>>
           ELSE /\ users' = InsertUser(users, next_id(users, seq), username,
                                       password, salt, role, NullText,
                                       NullText)
                /\ seq' = next_id(users, seq)
                /\ auth_logs' = log_auth_action(auth_logs,
                                                next_id(users, seq),
                                                username, "create_user", TRUE)
                /\ last' = call(TRUE)
                /\ wrong_run' = NextRun(users', "")
        /\ UNCHANGED <<now, conn, inflight, gui, journal, db>>

ChangePassword(username, old_password, new_password, salt) ==
    LET r == change_password(users, auth_logs, now, username,
                             old_password, new_password, salt)
        call(ret) == [op |-> "change_password", username |-> username,
                      old_password |-> old_password,
                      new_password |-> new_password, salt |-> salt,
                      ret |-> ret]
    IN  IF conn = "closed"
        THEN StorageFault(call(IF except_handler("authenticate") = None
                               THEN FALSE
                               ELSE except_handler("change_password")))
        ELSE /\ users' = r.users
             /\ auth_logs' = r.logs
             /\ last' = call(r.ret)
             /\ wrong_run' = NextRun(r.users,
                                 IF WrongPassword(users, username,
                                                  old_password)
                                 THEN username ELSE "")
             /\ UNCHANGED <<seq, now, conn, inflight, gui, journal, db>>

\* The dict get_user_info and list_users build from a row.
UserRow(u, row) ==
    [id |-> row.id, username |-> u, role |-> row.role,
     full_name |-> row.full_name, email |-> row.email,
     is_active |-> row.is_active, last_login |-> row.last_login]

\* SELECT ... FROM users ORDER BY username.
list_users(U) ==
    LET names == SelectSeq(<<"admin", "user">>, LAMBDA u : u \in DOMAIN U)
    IN  [i \in 1..Len(names) |-> UserRow(names[i], U[names[i]])]

GetUserInfo(username) ==
    LET call(ret) == [op |-> "get_user_info", username |-> username,
                      ret |-> ret]
    IN  IF conn = "closed"
        THEN StorageFault(call(except_handler("get_user_info")))
        ELSE /\ last' = call(IF username \in DOMAIN users
                             THEN UserRow(username, users[username])
                             ELSE None)
             /\ UNCHANGED <<users, seq, auth_logs, now, wrong_run, conn,
                            inflight, gui, journal, db>>

ListUsers ==
    IF conn = "closed"
    THEN StorageFault([op |-> "list_users",
                       ret |-> except_handler("list_users")])
    ELSE /\ last' = [op |-> "list_users", ret |-> list_users(users)]
         /\ UNCHANGED <<users, seq, auth_logs, now, wrong_run, conn,
                        inflight, gui, journal, db>>

UpdateUser(username, kwargs) ==
    LET call(ret) == [op |-> "update_user", username |-> username,
                      kwargs |-> kwargs, ret |-> ret]
    IN  /\ IF DOMAIN kwargs \cap allowed_fields = {}
           THEN /\ last' = call(FALSE)
                /\ UNCHANGED users
           ELSE IF conn = "closed"
           THEN /\ last' = call(except_handler("update_user"))
                /\ UNCHANGED users
           ELSE IF username \notin DOMAIN users
           THEN /\ last' = call(TRUE)
                /\ UNCHANGED users
           ELSE IF ~RoleCheck(ApplyKwargs(users[username], kwargs))
           THEN /\ last' = call(FALSE)
                /\ UNCHANGED users
           ELSE /\ users' = [users EXCEPT
                               ![username] = ApplyKwargs(@, kwargs)]
                /\ last' = call(TRUE)
        /\ wrong_run' = NextRun(users', "")
        /\ UNCHANGED <<seq, auth_logs, now, conn, inflight, gui, journal, db>>

DeleteUser(username) ==
    LET call(ret) == [op |-> "delete_user", username |-> username,
                      ret |-> ret]
    IN  /\ IF conn = "closed"
           THEN /\ UNCHANGED <<users, auth_logs>>
                /\ last' = call(except_handler("delete_user"))
           ELSE IF username \in DOMAIN users
           THEN /\ users' = DeleteRow(users, username)
                /\ auth_logs' = auth_logs_on_delete(auth_logs,
                                                    users[username].id)
                /\ last' = call(TRUE)
           ELSE /\ UNCHANGED <<users, auth_logs>>
                /\ last' = call(FALSE)
        /\ wrong_run' = NextRun(users', "")
        /\ UNCHANGED <<seq, now, conn, inflight, gui, journal, db>>

\* close(): self.conn is a Connection object, so `if self.conn` holds also
\* after a close, and Connection.close() on a closed connection does
\* nothing.
Close ==
    /\ conn' = "closed"
    /\ last' = [op |-> "close", ret |-> None]
    /\ UNCHANGED <<users, seq, auth_logs, now, wrong_run, inflight,
                   gui, journal, db>>

\* AuthSystem(db_path) constructed again on the database file, after the
\* previous connection was closed.
Open ==
    LET r == create_default_users(users, seq, auth_logs)
    IN  /\ conn = "closed"
        /\ r.seq <= MaxId
        /\ users' = r.users
        /\ seq' = r.seq
        /\ auth_logs' = r.logs
        /\ conn' = "open"
        /\ last' = [op |-> "open"]
        /\ wrong_run' = NextRun(users', "")
        /\ UNCHANGED <<now, inflight, gui, journal, db>>

Tick ==
    \E d \in {TickStep, LockMinutes} :
        /\ now + d <= MaxTime
        /\ now' = now + d
        /\ last' = [op |-> "tick"]
        /\ UNCHANGED <<users, seq, auth_logs, wrong_run, conn, inflight,
                       gui, journal, db>>

(***************************************************************************)
(* Spec: every call with every input, on a short audit log.                *)
(***************************************************************************)
Next ==
    \/ /\ Len(auth_logs) < MaxLog
       /\ \E u \in Usernames, p \in Passwords : Authenticate(u, p)
    \/ /\ Len(auth_logs) < MaxLog
       /\ \E u \in Usernames, p \in Passwords, r \in RoleInputs, s \in Salts :
             CreateUser(u, p, r, s)
    \/ /\ Len(auth_logs) < MaxLog
       /\ \E u \in Usernames, p \in Passwords, q \in Passwords, s \in Salts :
             ChangePassword(u, p, q, s)
    \/ \E u \in Usernames, k \in KwargInputs : UpdateUser(u, k)
    \/ \E u \in Usernames : DeleteUser(u)
    \/ Tick

Spec == Init /\ [][Next]_vars

(***************************************************************************)
(* LockSpec: the calls made on the one account "admin", on an audit log    *)
(* long enough for the account to be locked, to be refused, and for the    *)
(* lock to expire.  The new password and the salt of change_password are   *)
(* fixed; the account can be deactivated, reactivated and deleted.         *)
(***************************************************************************)
NextLock ==
    \/ /\ Len(auth_logs) < MaxLogLock
       /\ \E p \in Passwords : Authenticate("admin", p)
    \/ /\ Len(auth_logs) < MaxLogLock
       /\ \E p \in Passwords : ChangePassword("admin", p, "user123", "s2")
    \/ \E b \in BOOLEAN : UpdateUser("admin", [is_active |-> b])
    \/ DeleteUser("admin")
    \/ Tick

LockSpec == Init /\ [][NextLock]_vars

(***************************************************************************)
(* CloseSpec: every call with every input as in Spec, without the clock,   *)
(* together with the queries, close() and the reopening of the store.      *)
(***************************************************************************)
NextClose ==
    \/ /\ Len(auth_logs) < MaxLogClose
       /\ \E u \in Usernames, p \in Passwords : Authenticate(u, p)
    \/ /\ Len(auth_logs) < MaxLogClose
       /\ \E u \in Usernames, p \in Passwords, r \in RoleInputs, s \in Salts :
             CreateUser(u, p, r, s)
    \/ /\ Len(auth_logs) < MaxLogClose
       /\ \E u \in Usernames, p \in Passwords, q \in Passwords, s \in Salts :
             ChangePassword(u, p, q, s)
    \/ \E u \in Usernames : GetUserInfo(u)
    \/ ListUsers
    \/ \E u \in Usernames, k \in KwargInputs : UpdateUser(u, k)
    \/ \E u \in Usernames : DeleteUser(u)
    \/ Close
    \/ Open

CloseSpec == Init /\ [][NextClose]_vars

(***************************************************************************)
(* ConcSpec: authenticate calls on the account "admin" made by the         *)
(* callers Procs, each through a connection of its own to the same         *)
(* database file.  A call is a sequence of steps: its SELECT, then each    *)
(* write transaction it commits (SQLite lets one connection write at a     *)
(* time, so a transaction is one step).  Between the steps of one call     *)
(* the steps of another may run.                                           *)
(***************************************************************************)
\* The SELECT of authenticate (lines 229-237): the caller keeps the row of
\* the active account, or None.
ConcSelect(p, username, password) ==
    /\ inflight[p].pc = "idle"
    /\ inflight' = [inflight EXCEPT ![p] =
                      [pc |-> "selected", username |-> username,
                       password |-> password,
                       row |-> IF username \in DOMAIN users
                                  /\ users[username].is_active
                               THEN users[username] ELSE None]]
    /\ last' = [op |-> "select", proc |-> p]
    /\ UNCHANGED <<users, seq, auth_logs, now, wrong_run, conn,
                   gui, journal, db>>

\* The checks authenticate makes on the row it read (lines 239-258) and
\* the first write that follows them: the audit entry of a call that ends
\* here, or the counter update of _reset_login_attempts or
\* _increment_login_attempts (UPDATE ... WHERE id = ?).
ConcCheck(p) ==
    LET c == inflight[p]
        u == c.username
        ret(v) == [op |-> "authenticate", username |-> u,
                   password |-> c.password, ret |-> v]
        same == u \in DOMAIN users /\ users[u].id = c.row.id
    IN  /\ c.pc = "selected"
        /\ IF c.row = None
           THEN /\ auth_logs' = log_auth_action(auth_logs, NULL, u,
                                                "login", FALSE)
                /\ inflight' = [inflight EXCEPT ![p] = Idle]
                /\ last' = ret(None)
                /\ UNCHANGED <<users, wrong_run>>
           ELSE IF LockInForce(c.row, now)
           THEN /\ auth_logs' = login_blocked(users, auth_logs, c.row,
                                              u).logs
                /\ inflight' = [inflight EXCEPT ![p] = Idle]
                /\ last' = ret(login_blocked(users, auth_logs, c.row,
                                             u).ret)
                /\ UNCHANGED <<users, wrong_run>>
           ELSE IF hash_password(c.password, c.row.password_salt)
                      = c.row.password_hash
           THEN /\ users' = IF same THEN reset_login_attempts(users, u)
                            ELSE users
                /\ inflight' = [inflight EXCEPT ![p].pc = "reset"]
                /\ last' = [op |-> "reset", proc |-> p]
                /\ wrong_run' = NextRun(users', "")
                /\ UNCHANGED auth_logs
           ELSE /\ users' = IF same
                            THEN increment_login_attempts(users, u, now)
                            ELSE users
                /\ inflight' = [inflight EXCEPT ![p].pc = "incremented"]
                /\ last' = [op |-> "increment", proc |-> p]
                /\ wrong_run' = NextRun(users', u)
                /\ UNCHANGED auth_logs
        /\ UNCHANGED <<seq, now, conn, gui, journal, db>>

\* _update_last_login of a call whose password matched.
ConcLastLogin(p) ==
    LET c == inflight[p]
        u == c.username
    IN  /\ c.pc = "reset"
        /\ users' = IF u \in DOMAIN users /\ users[u].id = c.row.id
                    THEN update_last_login(users, u, now) ELSE users
        /\ inflight' = [inflight EXCEPT ![p].pc = "logged_in"]
        /\ last' = [op |-> "last_login", proc |-> p]
        /\ UNCHANGED <<seq, auth_logs, now, wrong_run, conn, gui, journal, db>>

\* The audit entry of a call that reached the password check, and its
\* return.
ConcLog(p) ==
    LET c == inflight[p]
        u == c.username
        ok == c.pc = "logged_in"
    IN  /\ c.pc \in {"logged_in", "incremented"}
        /\ auth_logs' = log_auth_action(auth_logs, c.row.id, u, "login", ok)
        /\ inflight' = [inflight EXCEPT ![p] = Idle]
        /\ last' = [op |-> "authenticate", username |-> u,
                    password |-> c.password,
                    ret |-> IF ok THEN UserInfo(u, c.row) ELSE None]
        /\ UNCHANGED <<users, seq, now, wrong_run, conn, gui, journal, db>>

NextConc ==
    \/ /\ Len(auth_logs) < MaxLogConc
       /\ \E p \in Procs, pw \in Passwords : ConcSelect(p, "admin", pw)
    \/ \E p \in Procs : ConcCheck(p)
    \/ \E p \in Procs : ConcLastLogin(p)
    \/ \E p \in Procs : ConcLog(p)

ConcSpec == Init /\ [][NextConc]_vars

(***************************************************************************)
(* GuiSpec: main() from the login dialog on.  The user submits the dialog  *)
(* with any of the texts, or cancels it; main() then creates the main      *)
(* window for the authenticated user, or closes the store; in the main     *)
(* window the user clicks the enabled controls of the reference tab and    *)
(* of the journal tab, or changes the user, which starts main() again.     *)
(***************************************************************************)
\* str.strip() on the texts of UsernameTexts.
strip(text) ==
    CASE text = " " -> ""
      [] text = " admin " -> "admin"
      [] OTHER -> text

\* fields_filled testing the username only.
fields_filled_username_only(username, password) == username # ""

\* The negation of `not username or not password`: both strings non-empty.
fields_filled(username, password) == username # "" /\ password # ""

\* LoginDialog._login: the handler of the login button and of Return in
\* either field.
Login(username_text, password_text) ==
    LET username == strip(username_text)
        password == password_text
        call(called, ret) ==
            [op |-> "login", username_text |-> username_text,
             username |-> username, password |-> password,
             called |-> called, ret |-> ret]
        r == IF conn = "closed"
             THEN [users |-> users, logs |-> auth_logs,
                   ret |-> except_handler("authenticate")]
             ELSE authenticate(users, auth_logs, now, username, password)
    IN  /\ gui.result = "running"
        /\ IF ~fields_filled(username, password)
           THEN /\ gui' = [gui EXCEPT !.status = "fill in all fields"]
                /\ last' = call(FALSE, None)
                /\ UNCHANGED <<users, auth_logs, wrong_run>>
           ELSE /\ users' = r.users
                /\ auth_logs' = r.logs
                /\ wrong_run' = NextRun(r.users,
                                    IF WrongPassword(users, username,
                                                     password)
                                    THEN username ELSE "")
                /\ last' = call(TRUE, r.ret)
                /\ gui' = IF r.ret # None
                          THEN [gui EXCEPT !.user_info = r.ret,
                                           !.login_button = FALSE,
                                           !.result = "Accepted"]
                          ELSE [gui EXCEPT !.user_info = r.ret,
                                           !.status = "wrong login or password",
                                           !.login_button = TRUE]
        /\ UNCHANGED <<seq, now, conn, inflight, journal, db>>

\* The cancel button: QDialog.reject.
Cancel ==
    /\ gui.result = "running"
    /\ gui' = [gui EXCEPT !.result = "Rejected"]
    /\ last' = [op |-> "cancel"]
    /\ UNCHANGED <<users, seq, auth_logs, now, wrong_run, conn, inflight,
                   journal, db>>

\* The controls of the reference tab as MainWindow._setup_references_tab
\* enables them: all three from can_create.
ReferenceControls(user_info) ==
    LET can_edit == user_info.permissions["can_create"]
    IN  [user_info |-> user_info, add_button |-> can_edit,
         edit_button |-> can_edit, delete_button |-> can_edit]

\* The ids of the rows of journal J whose time_in IS NULL: the active
\* trips.
active_trips(J) == {i \in 1..Len(J) : J[i].time_in = NULL}

\* The controls of the journal tab as MainWindow._setup_journals_tab
\* enables them: both from can_manage_journal; the combo box has no item.
JournalControls(user_info) ==
    LET can_manage == user_info.permissions["can_manage_journal"]
    IN  [release_button |-> can_manage, arrival_button |-> can_manage,
         arrival_combo |-> {}]

\* _update_journal_data on the window w and the table J: the combo box
\* lists the active trips; with none it holds the "no active trips" item
\* only (no trip id) and the arrival control is disabled.  No branch
\* enables the arrival control.
update_journal_data(w, J) ==
    IF active_trips(J) # {}
    THEN [w EXCEPT !.arrival_combo = active_trips(J)]
    ELSE [w EXCEPT !.arrival_combo = {}, !.arrival_button = FALSE]

\* MainWindow(user_info, db_connection, auth_system): _setup_ui builds the
\* tabs, then _load_initial_data refreshes the journal.
MainWindow(user_info, J) ==
    update_journal_data(
        ReferenceControls(user_info) @@ JournalControls(user_info), J)

\* main() after login_dialog.exec_() has returned: the main window for the
\* dialog's user_info, or disconnect and close.
Main ==
    /\ gui.result # "running"
    /\ gui.window = NoWindow
    /\ conn = "open"
    /\ IF gui.result = "Accepted"
       THEN /\ gui' = [gui EXCEPT
                           !.window = MainWindow(gui.user_info, journal)]
            /\ last' = [op |-> "main_window"]
            /\ UNCHANGED conn
       ELSE /\ conn' = "closed"
            /\ last' = [op |-> "exit"]
            /\ UNCHANGED gui
    /\ UNCHANGED <<users, seq, auth_logs, now, wrong_run, inflight,
                   journal, db>>

\* The permission a handler of the reference tab tests before it acts.
HandlerPermission ==
    [add_button |-> "can_create", edit_button |-> "can_update",
     delete_button |-> "can_delete"]

\* A click on an enabled control of the reference tab: _add_record,
\* _edit_record or _delete_record, which acts if its permission is held
\* and shows a warning otherwise.
Click(button) ==
    /\ gui.window # NoWindow
    /\ gui.window[button]
    /\ last' = [op |-> "click", button |-> button,
                ret |-> gui.window.user_info.permissions[
                            HandlerPermission[button]]]
    /\ UNCHANGED <<users, seq, auth_logs, now, wrong_run, conn, inflight,
                   gui, journal, db>>

\* The vehicles JournalEditDialog offers: those of table auto that are on
\* no active trip.
vehicles(J) == Autos \ {J[i].auto_id : i \in active_trips(J)}

\* A click on the enabled release control: _release_auto.  Without
\* can_manage_journal it warns and returns; otherwise JournalEditDialog is
\* accepted with one of the vehicles it offers, the trip is inserted with
\* time_in NULL and the journal is refreshed, or the dialog is cancelled.
ReleaseAuto(accepted, auto_id) ==
    /\ gui.window # NoWindow
    /\ gui.window.release_button
    /\ IF /\ gui.window.user_info.permissions["can_manage_journal"]
          /\ accepted
       THEN /\ auto_id \in vehicles(journal)
            /\ Len(journal) < MaxTrips
            /\ journal' = Append(journal, [auto_id |-> auto_id,
                                           time_in |-> NULL])
            /\ gui' = [gui EXCEPT
                           !.window = update_journal_data(@, journal')]
       ELSE UNCHANGED <<journal, gui>>
    /\ last' = [op |-> "release_auto", accepted |-> accepted,
                auto_id |-> auto_id]
    /\ UNCHANGED <<users, seq, auth_logs, now, wrong_run, conn, inflight, db>>

\* A click on the enabled arrival control: _register_arrival.
\* ArrivalEditDialog is accepted with one of the active trips, whose
\* time_in is set, and the journal is refreshed, or the dialog is
\* cancelled.
RegisterArrival(accepted, journal_id) ==
    /\ gui.window # NoWindow
    /\ gui.window.arrival_button
    /\ IF accepted
       THEN /\ journal_id \in active_trips(journal)
            /\ journal' = [journal EXCEPT ![journal_id].time_in = now]
            /\ gui' = [gui EXCEPT
                           !.window = update_journal_data(@, journal')]
       ELSE UNCHANGED <<journal, gui>>
    /\ last' = [op |-> "register_arrival", accepted |-> accepted,
                journal_id |-> journal_id]
    /\ UNCHANGED <<users, seq, auth_logs, now, wrong_run, conn, inflight, db>>

\* _change_user answered Yes: the window is closed, both connections are
\* closed and the application is started again, so main() constructs
\* AuthSystem and LoginDialog anew; the tables are kept.
ChangeUser ==
    LET r == create_default_users(users, seq, auth_logs)
    IN  /\ gui.window # NoWindow
        /\ users' = r.users
        /\ seq' = r.seq
        /\ auth_logs' = r.logs
        /\ conn' = "open"
        /\ gui' = LoginDialog
        /\ last' = [op |-> "change_user"]
        /\ wrong_run' = NextRun(users', "")
        /\ UNCHANGED <<now, inflight, journal, db>>

NextGui ==
    \/ /\ Len(auth_logs) < MaxLogGui
       /\ \E u \in UsernameTexts, p \in PasswordTexts : Login(u, p)
    \/ Cancel
    \/ Main
    \/ \E b \in DOMAIN HandlerPermission : Click(b)
    \/ \E accepted \in BOOLEAN, a \in Autos : ReleaseAuto(accepted, a)
    \/ \E accepted \in BOOLEAN, j \in 1..MaxTrips :
          RegisterArrival(accepted, j)
    \/ ChangeUser
    \/ Tick

GuiSpec == Init /\ [][NextGui]_vars

(***************************************************************************)
(* DbSpec: the DatabaseConnection object (src/src/database/connection.py). *)
(* connect is called with any max_retries up to MaxRetries; what each      *)
(* attempt meets is an input:                                              *)
(*   refused      psycopg2.connect raises OperationalError                 *)
(*   bad_params   an exception that is no OperationalError is raised       *)
(*                before psycopg2.connect returns (a key missing in        *)
(*                config, a malformed parameter)                           *)
(*   lost         the connection is opened and the cursor created, then    *)
(*                SET search_path or commit raises OperationalError        *)
(*   bad_schema   the connection is opened and the cursor created, then    *)
(*                SET search_path raises an error that is no               *)
(*                OperationalError (the schema does not exist)             *)
(*   test_failed  the connection is set up and _test_connection is False   *)
(*   connected    the connection is set up and _test_connection is True    *)
(***************************************************************************)
\* The objects psycopg2.connect and connection.cursor return.
Connection == [tag |-> "connection"]

Cursor == [tag |-> "cursor"]

\* disconnect(): cursor and connection are closed when set, and both
\* attributes are None afterwards in every case (finally).
disconnect(d) == [d EXCEPT !.cursor = None, !.connection = None]

\* Lines 77-88 of connect having run through cursor creation: both
\* attributes hold the new objects.
opened(d) == [d EXCEPT !.connection = Connection, !.cursor = Cursor]

\* connect(max_retries) on the object d from the loop index attempt on,
\* the attempts meeting outcomes[attempt + 1], ...: the object afterwards
\* and the return value.
RECURSIVE connect(_, _, _, _)
connect(d, attempt, max_retries, outcomes) ==
    IF attempt >= max_retries
    THEN [db |-> d, ret |-> FALSE]
    ELSE LET counted == [d EXCEPT !.stats.connection_attempts = @ + 1]
             failed(x) == [x EXCEPT !.stats.errors = @ + 1]
             retry(x) == IF attempt < max_retries - 1 THEN x ELSE failed(x)
             outcome == outcomes[attempt + 1]
         IN  CASE outcome = "connected" ->
                    [db |-> opened(counted), ret |-> TRUE]
               [] outcome = "test_failed" ->
                    connect(disconnect(opened(counted)), attempt + 1,
                            max_retries, outcomes)
               [] outcome = "refused" ->
                    connect(retry(counted), attempt + 1, max_retries,
                            outcomes)
               [] outcome = "lost" ->
                    connect(retry(opened(counted)), attempt + 1,
                            max_retries, outcomes)
               [] outcome = "bad_params" ->
                    [db |-> failed(counted), ret |-> FALSE]
               [] outcome = "bad_schema" ->
                    [db |-> failed(opened(counted)), ret |-> FALSE]

\* A call of connect(max_retries).
Connect(max_retries, outcomes) ==
    LET r == connect(db, 0, max_retries, outcomes)
    IN  /\ db.stats.connection_attempts + max_retries <= MaxAttempts
        /\ db' = r.db
        /\ last' = [op |-> "connect", max_retries |-> max_retries,
                    outcomes |-> outcomes, ret |-> r.ret]
        /\ UNCHANGED <<users, seq, auth_logs, now, wrong_run, conn, inflight,
                       gui, journal>>

\* A call of disconnect().
Disconnect ==
    /\ db' = disconnect(db)
    /\ last' = [op |-> "disconnect"]
    /\ UNCHANGED <<users, seq, auth_logs, now, wrong_run, conn, inflight,
                   gui, journal>>

NextDb ==
    \/ \E m \in 0..MaxRetries :
          \E outcomes \in [1..m -> AttemptOutcomes] : Connect(m, outcomes)
    \/ Disconnect

DbSpec == Init /\ [][NextDb]_vars

(***************************************************************************)
(* Vocabulary of the properties.                                           *)
(***************************************************************************)
\* password is the password of the account named username.
Correct(U, username, password) ==
    /\ username \in DOMAIN U
    /\ hash_password(password, U[username].password_salt)
           = U[username].password_hash

\* The latest step was a call of op on username.
Called(op, username) == last.op = op /\ last.username = username

\* The permission tables of the specification, section 4.3.
AdminPermissions ==
    [can_create |-> TRUE, can_read |-> TRUE, can_update |-> TRUE,
     can_delete |-> TRUE, can_manage_users |-> TRUE,
     can_manage_personnel |-> TRUE, can_manage_vehicles |-> TRUE,
     can_manage_routes |-> TRUE, can_manage_journal |-> TRUE,
     can_view_reports |-> TRUE, can_generate_reports |-> TRUE,
     can_export_data |-> TRUE, can_configure_system |-> TRUE,
     can_view_logs |-> TRUE, can_backup_restore |-> TRUE]

UserPermissions ==
    [can_create |-> FALSE, can_read |-> TRUE, can_update |-> TRUE,
     can_delete |-> FALSE, can_manage_users |-> FALSE,
     can_manage_personnel |-> FALSE, can_manage_vehicles |-> FALSE,
     can_manage_routes |-> FALSE, can_manage_journal |-> TRUE,
     can_view_reports |-> TRUE, can_generate_reports |-> TRUE,
     can_export_data |-> FALSE, can_configure_system |-> FALSE,
     can_view_logs |-> FALSE, can_backup_restore |-> FALSE]

ExpectedPermissions(role) ==
    IF role = "admin" THEN AdminPermissions ELSE UserPermissions

(***************************************************************************)
(* C1.  Starting from counter 0, the fifth consecutive authenticate call   *)
(* with a wrong password on an (active) account leaves it with counter 5   *)
(* and locked until the time of that call + 30 minutes; a sixth            *)
(* authenticate made while now < locked_until, whatever its password,      *)
(* returns failure and leaves the counter at 5.                            *)
(***************************************************************************)
C1_FifthFailureLocks(u) ==
    (/\ Called("authenticate", u)'
     /\ WrongPassword(users, u, last'.password)
     /\ wrong_run[u] = 4
     /\ wrong_run'[u] = 5)
    => /\ last'.ret = None
       /\ users'[u].login_attempts = 5
       /\ users'[u].locked_until = now + 30

C1_SixthRefused(u) ==
    (/\ Called("authenticate", u)'
     /\ wrong_run[u] = 5
     /\ u \in DOMAIN users
     /\ now < users[u].locked_until)
    => /\ last'.ret = None
       /\ u \in DOMAIN users'
       /\ users'[u].login_attempts = 5

C1_FiveFailuresLock ==
    [][\A u \in Usernames : C1_FifthFailureLocks(u) /\ C1_SixthRefused(u)]_vars

\* The sixth call, made later than the fifth with the correct password, was
\* refused on the locked account.
C1_Witness ==
    \E u \in DOMAIN users :
        /\ Called("authenticate", u)
        /\ Correct(users, u, last.password)
        /\ last.ret = None
        /\ users[u].is_active
        /\ wrong_run[u] = 5
        /\ users[u].login_attempts = 5
        /\ users[u].locked_until = 30
        /\ now = 15

(***************************************************************************)
(* C2.  An authenticate call with a wrong password on an active account    *)
(* on which no lock is in force raises the stored counter by exactly 1,    *)
(* and the lock timestamp stays null while the new counter is below 5.     *)
(***************************************************************************)
C2_WrongPasswordCounts ==
    [][\A u \in Usernames :
          (/\ Called("authenticate", u)'
           /\ WrongPassword(users, u, last'.password)
           /\ ~LockInForce(users[u], now))
          => /\ users'[u].login_attempts = users[u].login_attempts + 1
             /\ users'[u].login_attempts < 5
                   => users'[u].locked_until = NULL]_vars

C2_Witness ==
    \E u \in DOMAIN users :
        /\ Called("authenticate", u)
        /\ ~Correct(users, u, last.password)
        /\ last.ret = None
        /\ users[u].is_active
        /\ wrong_run[u] = 4
        /\ users[u].login_attempts = 4
        /\ users[u].locked_until = NULL

(***************************************************************************)
(* C3.  On an (active) account whose lock timestamp is set, an             *)
(* authenticate call with the correct password at a time                   *)
(* now >= locked_until succeeds; and after every successful authenticate   *)
(* the account's counter is 0 and its lock timestamp is null.              *)
(***************************************************************************)
C3_ExpiredLockLogin(u) ==
    (/\ Called("authenticate", u)'
     /\ Correct(users, u, last'.password)
     /\ users[u].is_active
     /\ users[u].locked_until # NULL
     /\ now >= users[u].locked_until)
    => last'.ret.tag = "user_info"

C3_SuccessResets(u) ==
    (/\ Called("authenticate", u)'
     /\ last'.ret.tag = "user_info")
    => /\ u \in DOMAIN users'
       /\ users'[u].login_attempts = 0
       /\ users'[u].locked_until = NULL

C3_SuccessAfterExpiry ==
    [][\A u \in Usernames :
          C3_ExpiredLockLogin(u) /\ C3_SuccessResets(u)]_vars

\* A successful login, logged right after five logged wrong-password
\* failures of the same account: the account was locked, the lock expired.
C3_Witness ==
    \E u \in DOMAIN users :
        LET n == Len(auth_logs)
        IN  /\ Called("authenticate", u)
            /\ last.ret.tag = "user_info"
            /\ n >= 6
            /\ auth_logs[n] = LogRow(users[u].id, u, "login", TRUE)
            /\ \A i \in (n - 5)..(n - 1) :
                  auth_logs[i] = LogRow(users[u].id, u, "login", FALSE)
            /\ users[u].login_attempts = 0
            /\ users[u].locked_until = NULL
            /\ now = 30

(***************************************************************************)
(* C4.  create_user with a username that no account has and a role in      *)
(* {admin, user} returns True, and an authenticate call with the same      *)
(* username and password made right after it returns a user_info with      *)
(* that username, that role and the permission table of that role.         *)
(***************************************************************************)
C4_CreateThenAuthenticate ==
    [][\A u \in Usernames :
          (/\ Called("create_user", u)'
           /\ u \notin DOMAIN users
           /\ last'.role \in {"admin", "user"})
          => /\ last'.ret = TRUE
             /\ LET a == authenticate(users', auth_logs', now', u,
                                      last'.password).ret
                IN  /\ a.tag = "user_info"
                    /\ a.username = u
                    /\ a.role = last'.role
                    /\ a.permissions = ExpectedPermissions(last'.role)]_vars

C4_Witness ==
    \E u \in DOMAIN users :
        /\ Called("create_user", u)
        /\ last.ret = TRUE
        /\ users[u].id = 3
        /\ users[u].role = last.role
        /\ Correct(users, u, last.password)

(***************************************************************************)
(* C5.  A change_password call with a wrong old password returns False     *)
(* and leaves the stored hash and salt unchanged.                          *)
(*                                                                         *)
(* C5_FailedChangeKeepsLogin is the claim as stated, on an active          *)
(* account: after such a call, authenticate with the old (correct)         *)
(* password succeeds, at once and at any later clock value.                *)
(* C5_FailedChangeKeepsPassword is the amended claim, on any account: it   *)
(* succeeds whenever the account is active and no lock is in force on it   *)
(* at the time of that authenticate (the failed change counts as a failed  *)
(* login attempt and can lock the account).                                *)
(***************************************************************************)
C5_Times == 0..(MaxTime + 31)

C5_FailedChange(u) ==
    /\ Called("change_password", u)'
    /\ u \in DOMAIN users
    /\ ~Correct(users, u, last'.old_password)

C5_Unchanged(u) ==
    /\ last'.ret = FALSE
    /\ u \in DOMAIN users'
    /\ users'[u].password_hash = users[u].password_hash
    /\ users'[u].password_salt = users[u].password_salt

C5_FailedChangeKeepsLogin ==
    [][\A u \in Usernames :
          (C5_FailedChange(u) /\ users[u].is_active)
          => /\ C5_Unchanged(u)
             /\ \A p \in Passwords, t \in C5_Times :
                   (Correct(users, u, p) /\ t >= now)
                   => authenticate(users', auth_logs', t, u, p).ret.tag
                          = "user_info"]_vars

C5_FailedChangeKeepsPassword ==
    [][\A u \in Usernames :
          C5_FailedChange(u)
          => /\ C5_Unchanged(u)
             /\ \A p \in Passwords, t \in C5_Times :
                   (/\ Correct(users, u, p)
                    /\ t >= now
                    /\ users'[u].is_active
                    /\ ~(users'[u].locked_until # NULL
                            /\ t < users'[u].locked_until))
                   => authenticate(users', auth_logs', t, u, p).ret.tag
                          = "user_info"]_vars

\* A change_password call with a wrong old password has failed, and the
\* account is not locked.
C5_Witness ==
    \E u \in DOMAIN users :
        /\ Called("change_password", u)
        /\ ~Correct(users, u, last.old_password)
        /\ last.old_password # last.new_password
        /\ last.ret = FALSE
        /\ users[u].is_active
        /\ users[u].login_attempts \in 1..4
        /\ users[u].locked_until = NULL

(***************************************************************************)
(* C6.  A change_password(u, old, new) call whose old password             *)
(* authenticates returns True, stores the freshly drawn salt and the       *)
(* digest of new under it, and leaves counter 0 and no lock; afterwards    *)
(* authenticate(u, new) succeeds and, when old differs from new,           *)
(* authenticate(u, old) fails.                                             *)
(***************************************************************************)
C6_ChangePasswordReplaces ==
    [][\A u \in Usernames :
          (/\ Called("change_password", u)'
           /\ authenticate(users, auth_logs, now, u,
                           last'.old_password).ret.tag = "user_info")
          => /\ last'.ret = TRUE
             /\ u \in DOMAIN users'
             /\ users'[u].password_salt = last'.salt
             /\ users'[u].password_hash
                   = hash_password(last'.new_password, last'.salt)
             /\ users'[u].login_attempts = 0
             /\ users'[u].locked_until = NULL
             /\ authenticate(users', auth_logs', now', u,
                             last'.new_password).ret.tag = "user_info"
             /\ last'.old_password # last'.new_password
                   => authenticate(users', auth_logs', now', u,
                                   last'.old_password).ret = None]_vars

\* A password has been changed to a different one under a different salt,
\* on an account that had failed attempts before the call.
C6_Witness ==
    \E u \in DOMAIN users :
        LET n == Len(auth_logs)
        IN  /\ Called("change_password", u)
            /\ last.ret = TRUE
            /\ last.old_password # last.new_password
            /\ Correct(users, u, last.new_password)
            /\ users[u].password_salt = "s2"
            /\ n >= 5
            /\ auth_logs[n]
                  = LogRow(users[u].id, u, "change_password", TRUE)
            /\ auth_logs[n - 2] = LogRow(users[u].id, u, "login", FALSE)

C8_OneFailureValue ==
    [][\A u \in Usernames :
          (/\ Called("authenticate", u)'
           /\ \/ u \notin DOMAIN users
              \/ ~users[u].is_active
              \/ LockInForce(users[u], now)
              \/ ~Correct(users, u, last'.password))
          => last'.ret = None]_vars

\* A correct password was refused on a locked account, after calls with a
\* wrong password and a call made while the account was inactive had been
\* refused.
C8_Witness ==
    \E u \in DOMAIN users :
        /\ Called("authenticate", u)
        /\ Correct(users, u, last.password)
        /\ users[u].is_active
        /\ LockInForce(users[u], now)
        /\ last.ret = None
        /\ \E i \in 1..Len(auth_logs) :
              auth_logs[i] = LogRow(users[u].id, u, "login", FALSE)
        /\ \E i \in 1..Len(auth_logs) :
              auth_logs[i] = LogRow(NULL, u, "login", FALSE)

(***************************************************************************)
(* C9.  delete_user(u) returns True exactly when an account named u        *)
(* existed, removes that account and changes nothing else; afterwards      *)
(* authenticate(u, p), for every password p, has the result and the        *)
(* effects of authenticate on a username that never had an account: it     *)
(* returns None, appends one login failure entry with null account id      *)
(* and changes no account.                                                 *)
(***************************************************************************)
C9_LikeNoAccount(U, L, t, u) ==
    \A p \in Passwords :
        LET a == authenticate(U, L, t, u, p)
            n == authenticate(U, L, t, NoAccountName, p)
        IN  /\ a.ret = None
            /\ a.ret = n.ret
            /\ a.users = U
            /\ n.users = U
            /\ a.logs = Append(L, [user_id |-> NULL, username |-> u,
                                   action |-> "login", success |-> FALSE])
            /\ n.logs = Append(L, [user_id |-> NULL,
                                   username |-> NoAccountName,
                                   action |-> "login", success |-> FALSE])

C10_RejectedCreate ==
    [][\A u \in Usernames :
          (/\ Called("create_user", u)'
           /\ \/ last'.role \notin {"admin", "user"}
              \/ u \in DOMAIN users)
          => /\ last'.ret = FALSE
             /\ users' = users
             /\ seq' = seq
             /\ auth_logs' = auth_logs]_vars

\* A valid role, an existing username and another password than the
\* account's: the call was refused and the account kept its password.
C10_Witness ==
    \E u \in DOMAIN users :
        /\ Called("create_user", u)
        /\ last.ret = FALSE
        /\ last.role \in {"admin", "user"}
        /\ last.role # users[u].role
        /\ ~Correct(users, u, last.password)

(***************************************************************************)
(* C11.  (the claim as stated; it fails on the code)  No update_user call  *)
(* changes the set of usernames or an account's id, hash, salt, counter    *)
(* or lock timestamp, and a call that supplies a role outside              *)
(* {admin, user} returns False and changes no account.                     *)
(***************************************************************************)
C11_Frame ==
    /\ DOMAIN users' = DOMAIN users
    /\ \A v \in DOMAIN users :
          /\ users'[v].id = users[v].id
          /\ users'[v].password_hash = users[v].password_hash
          /\ users'[v].password_salt = users[v].password_salt
          /\ users'[v].login_attempts = users[v].login_attempts
          /\ users'[v].locked_until = users[v].locked_until

C11_UpdateFrameAndRole ==
    [][\A u \in Usernames :
          Called("update_user", u)'
          => /\ C11_Frame
             /\ ("role" \in DOMAIN last'.kwargs
                    /\ last'.kwargs.role \notin {"admin", "user"})
                   => (last'.ret = FALSE /\ users' = users)]_vars

(***************************************************************************)
(* C12.  C12_OneEntryPerCall is the claim as stated: every authenticate,   *)
(* create_user and change_password call lengthens auth_logs by exactly     *)
(* one row.  C12_EntriesPerCall is the amended claim: authenticate         *)
(* appends exactly one row; create_user appends one row when it returns    *)
(* True and none when it returns False; change_password appends two rows   *)
(* (login, change_password) when it returns True and one when it returns   *)
(* False.                                                                  *)
(***************************************************************************)
C12_Grows(n) ==
    /\ Len(auth_logs') = Len(auth_logs) + n
    /\ SubSeq(auth_logs', 1, Len(auth_logs)) = auth_logs

C14_ChangePasswordLogged ==
    [][\A u \in Usernames :
          Called("change_password", u)'
          => /\ Len(auth_logs') > Len(auth_logs)
             /\ auth_logs'[Len(auth_logs')].action = "change_password"
             /\ auth_logs'[Len(auth_logs')].username = u
             /\ auth_logs'[Len(auth_logs')].success = last'.ret]_vars

(***************************************************************************)
(* C16.  In every state an account has its lock timestamp set if and only  *)
(* if its stored counter is at least 5.                                    *)
(***************************************************************************)
C16_LockedIffFive ==
    \A u \in DOMAIN users :
        (users[u].locked_until # NULL) <=> (users[u].login_attempts >= 5)

\* A lock has expired and a further wrong password has locked the account
\* again, with the counter at 6.
C16_Witness ==
    \E u \in DOMAIN users :
        /\ users[u].login_attempts = 6
        /\ users[u].locked_until = 60
        /\ now = 30

(***************************************************************************)
(* C17.  C17_NoLockInForceBelowFive is the claim as stated: an account on  *)
(* which no lock is in force (lock timestamp null, or now >= locked_until) *)
(* has a counter between 0 and 4.  C17_NoLockBelowFive is the amended      *)
(* claim: an account whose lock timestamp is null has a counter between 0  *)
(* and 4 (an expired lock leaves the counter where it was).                *)
(***************************************************************************)
C17_NoLockInForceBelowFive ==
    \A u \in DOMAIN users :
        (users[u].locked_until = NULL \/ now >= users[u].locked_until)
        => users[u].login_attempts \in 0..4

C17_NoLockBelowFive ==
    \A u \in DOMAIN users :
        users[u].locked_until = NULL => users[u].login_attempts \in 0..4

\* Four wrong passwords have been counted and no lock is set.
C17_Witness ==
    \E u \in DOMAIN users :
        /\ users[u].login_attempts = 4
        /\ users[u].locked_until = NULL
        /\ users[u].is_active
        /\ now = 30

(***************************************************************************)
(* C19.  (the claim as stated; it fails on the code)  After delete_user    *)
(* has deleted an account, no row of auth_logs carries that account's id.  *)
(***************************************************************************)
C19_DeleteNullifiesLog ==
    [][\A u \in Usernames :
          (Called("delete_user", u)' /\ last'.ret = TRUE)
          => \A i \in 1..Len(auth_logs') :
                auth_logs'[i].user_id # users[u].id]_vars

(***************************************************************************)
(* C15.  (the claim as stated; it fails on the code)  With authenticate    *)
(* calls on one account interleaved, no step increments the stored         *)
(* counter of an account whose lock is in force, so the counter of a       *)
(* locked account never exceeds 5.                                         *)
(***************************************************************************)
C15_NoIncrementWhileLocked ==
    [][\A u \in DOMAIN users :
          LockInForce(users[u], now)
          => /\ u \in DOMAIN users'
             /\ users'[u].login_attempts <= users[u].login_attempts
             /\ users'[u].login_attempts <= LockThreshold]_vars

(***************************************************************************)
(* C18.  On a closed connection authenticate and get_user_info return      *)
(* None, list_users returns the empty list, and create_user,               *)
(* change_password, update_user and delete_user return False: none lets    *)
(* an exception reach the caller.  close() on a closed connection returns  *)
(* normally and changes nothing.                                           *)
(***************************************************************************)
C18_ClosedStoreFails ==
    [][conn = "closed"
       => /\ last'.op \in {"authenticate", "get_user_info"}
                => last'.ret = None
          /\ last'.op = "list_users" => last'.ret = << >>
          /\ last'.op \in {"create_user", "change_password", "update_user",
                           "delete_user"}
                => last'.ret = FALSE
          /\ last'.op = "close"
                => /\ last'.ret = None
                   /\ UNCHANGED <<users, seq, auth_logs, conn>>]_vars

\* The correct password of an active, unlocked account has been refused on
\* a closed connection.
C18_Witness ==
    \E u \in DOMAIN users :
        /\ conn = "closed"
        /\ Called("authenticate", u)
        /\ Correct(users, u, last.password)
        /\ users[u].is_active
        /\ users[u].locked_until = NULL
        /\ last.ret = None

(***************************************************************************)
(* C20.  Opening the store on an empty users table creates exactly two     *)
(* accounts, one of role admin and one of role user, both active with      *)
(* counter 0 and no lock; opening it on a non-empty users table leaves     *)
(* the table as it is.                                                     *)
(***************************************************************************)
C20_Seeded(U) ==
    /\ Cardinality(DOMAIN U) = 2
    /\ \E a \in DOMAIN U, b \in DOMAIN U :
          a # b /\ U[a].role = "admin" /\ U[b].role = "user"
    /\ \A u \in DOMAIN U :
          /\ U[u].is_active
          /\ U[u].login_attempts = 0
          /\ U[u].locked_until = NULL

C20_OpenSeedsWhenEmpty ==
    [][last'.op = "open"
       => IF DOMAIN users = {} THEN C20_Seeded(users')
          ELSE users' = users /\ seq' = seq]_vars

\* The store has been reopened on an emptied users table and seeded again.
C20_Witness ==
    /\ last.op = "open"
    /\ DOMAIN users = {"admin", "user"}
    /\ users["admin"].id = 3
    /\ users["user"].id = 4
    /\ Len(auth_logs) >= 4

(***************************************************************************)
(* C21.  An authenticate call made on an active account while its lock is  *)
(* in force changes no row of users (counter, lock timestamp, last login,  *)
(* hash and salt stay as they are) and appends exactly one row to          *)
(* auth_logs: login_blocked, success false, with the account's id.         *)
(***************************************************************************)
C21_BlockedCallFrame ==
    [][\A u \in DOMAIN users :
          (/\ Called("authenticate", u)'
           /\ users[u].is_active
           /\ LockInForce(users[u], now))
          => /\ users' = users
             /\ auth_logs' = Append(auth_logs,
                                    LogRow(users[u].id, u, "login_blocked",
                                           FALSE))
             /\ last'.ret = None]_vars

\* The correct password has been refused on a locked account whose counter
\* is still 5 and whose lock still ends 30 minutes after it was set.
C21_Witness ==
    \E u \in DOMAIN users :
        /\ Called("authenticate", u)
        /\ Correct(users, u, last.password)
        /\ users[u].is_active
        /\ users[u].login_attempts = LockThreshold
        /\ users[u].locked_until = LockMinutes
        /\ now = TickStep
        /\ auth_logs[Len(auth_logs)].action = "login_blocked"

(***************************************************************************)
(* C22.  An authenticate call whose username matches no active account     *)
(* (no row, or an inactive one) changes no row of users and appends        *)
(* exactly one row to auth_logs: login, success false, user_id NULL, with  *)
(* the username as it was given.                                           *)
(***************************************************************************)
C22_NoActiveAccount ==
    [][\A u \in Usernames :
          (/\ Called("authenticate", u)'
           /\ ~(u \in DOMAIN users /\ users[u].is_active))
          => /\ users' = users
             /\ auth_logs' = Append(auth_logs,
                                    LogRow(NULL, u, "login", FALSE))
             /\ last'.ret = None]_vars

\* The correct password of a deactivated account has been refused and
\* logged without the account's id.
C22_Witness ==
    \E u \in DOMAIN users :
        /\ Called("authenticate", u)
        /\ Correct(users, u, last.password)
        /\ ~users[u].is_active
        /\ auth_logs[Len(auth_logs)] = LogRow(NULL, u, "login", FALSE)

(***************************************************************************)
(* C23.  The dict a successful authenticate returns carries the role       *)
(* stored at the time of the call, is_admin true exactly when that role    *)
(* is admin, and the permissions of that role; and a successful            *)
(* update_user(u, role=r) on an existing account stores r, so that the     *)
(* next successful authenticate returns r and r's permissions.             *)
(***************************************************************************)
C23_ViewReflectsRole ==
    [][\A u \in DOMAIN users :
          /\ (Called("authenticate", u)' /\ last'.ret # None)
             => /\ last'.ret.role = users[u].role
                /\ last'.ret.role = users'[u].role
                /\ last'.ret.is_admin = (users[u].role = "admin")
                /\ last'.ret.permissions
                       = ExpectedPermissions(users[u].role)
          /\ (/\ Called("update_user", u)'
              /\ last'.ret = TRUE
              /\ "role" \in DOMAIN last'.kwargs)
             => users'[u].role = last'.kwargs.role]_vars

\* The seeded user account, promoted to admin, has authenticated and got
\* the admin view.
C23_Witness ==
    /\ Called("authenticate", "user")
    /\ last.ret # None
    /\ last.ret.id = 2
    /\ last.ret.role = "admin"
    /\ last.ret.is_admin
    /\ last.ret.permissions["can_delete"]

(***************************************************************************)
(* C25.  Lock expiry does not reset the counter: on an active account      *)
(* whose lock timestamp is set and no longer ahead, the counter is still   *)
(* at least 5, and one authenticate call with a wrong password raises it   *)
(* by one, above 5, and sets the lock to end 30 minutes after that call.   *)
(***************************************************************************)
C25_RelockAfterExpiry ==
    [][\A u \in DOMAIN users :
          (/\ Called("authenticate", u)'
           /\ WrongPassword(users, u, last'.password)
           /\ users[u].locked_until # NULL
           /\ now >= users[u].locked_until)
          => /\ users[u].login_attempts >= LockThreshold
             /\ users'[u].login_attempts = users[u].login_attempts + 1
             /\ users'[u].login_attempts > LockThreshold
             /\ users'[u].locked_until = now + LockMinutes
             /\ LockInForce(users'[u], now)
             /\ last'.ret = None]_vars

\* A wrong password given after the lock expired has locked the account
\* again with counter 6.
C25_Witness ==
    \E u \in DOMAIN users :
        /\ Called("authenticate", u)
        /\ ~Correct(users, u, last.password)
        /\ users[u].login_attempts = LockThreshold + 1
        /\ now = LockMinutes
        /\ users[u].locked_until = now + LockMinutes
        /\ auth_logs[Len(auth_logs)] = LogRow(users[u].id, u, "login", FALSE)

(***************************************************************************)
(* C26.  A change_password call with a wrong old password, made on an      *)
(* active account on which no lock is in force, returns False and leaves   *)
(* users as an authenticate call with that wrong password would: the       *)
(* counter is one higher, and the fifth wrong password in a row, given to  *)
(* change_password, locks the account for 30 minutes.                      *)
(***************************************************************************)
C26_FailedChangeCounts ==
    [][\A u \in DOMAIN users :
          (/\ Called("change_password", u)'
           /\ WrongPassword(users, u, last'.old_password)
           /\ ~LockInForce(users[u], now))
          => /\ last'.ret = FALSE
             /\ users' = authenticate(users, auth_logs, now, u,
                                      last'.old_password).users
             /\ users'[u].login_attempts = users[u].login_attempts + 1
             /\ users'[u].login_attempts >= LockThreshold
                   => users'[u].locked_until = now + LockMinutes
             /\ wrong_run'[u] = LockThreshold
                   => /\ users'[u].login_attempts = LockThreshold
                      /\ users'[u].locked_until = now + LockMinutes]_vars

\* The fifth wrong password in a row was given to change_password and has
\* locked the account.
C26_Witness ==
    \E u \in DOMAIN users :
        /\ Called("change_password", u)
        /\ last.ret = FALSE
        /\ ~Correct(users, u, last.old_password)
        /\ wrong_run[u] = LockThreshold
        /\ users[u].login_attempts = LockThreshold
        /\ users[u].locked_until = now + LockMinutes

(***************************************************************************)
(* C27.  (the claim as stated; it fails on the code)  update_user returns  *)
(* True only when the username matches an account: called with a username  *)
(* that matches no account, or with no allow-listed field, it returns      *)
(* False and changes nothing.                                              *)
(***************************************************************************)
C27_UpdateUnknownFails ==
    [][\A u \in Usernames :
          (/\ Called("update_user", u)'
           /\ \/ u \notin DOMAIN users
              \/ DOMAIN last'.kwargs \cap allowed_fields = {})
          => (last'.ret = FALSE /\ users' = users)]_vars

(***************************************************************************)
(* C28.  While an account is inactive every authenticate call on it        *)
(* returns None, and no step changes its counter, lock timestamp or last   *)
(* login; the steps that deactivate and reactivate it leave them unchanged *)
(* too, so the reactivated account has the lockout state it was            *)
(* deactivated with.                                                       *)
(***************************************************************************)
C28_SameLockout(u) ==
    /\ users'[u].login_attempts = users[u].login_attempts
    /\ users'[u].locked_until = users[u].locked_until
    /\ users'[u].last_login = users[u].last_login

C28_InactiveKeepsLockout ==
    [][\A u \in DOMAIN users :
          /\ (Called("authenticate", u)' /\ ~users[u].is_active)
             => last'.ret = None
          /\ (/\ u \in DOMAIN users'
              /\ users'[u].id = users[u].id
              /\ ~(users[u].is_active /\ users'[u].is_active))
             => C28_SameLockout(u)]_vars

\* An account deactivated with counter 4 was refused its correct password
\* while inactive and has been reactivated with counter 4.
C28_Witness ==
    \E u \in DOMAIN users :
        /\ Called("update_user", u)
        /\ last.kwargs = [is_active |-> TRUE]
        /\ last.ret = TRUE
        /\ users[u].is_active
        /\ users[u].login_attempts = LockThreshold - 1
        /\ users[u].locked_until = NULL
        /\ auth_logs[Len(auth_logs)] = LogRow(NULL, u, "login", FALSE)

(***************************************************************************)
(* C29.  Ids of users are never reused: an account that a step creates     *)
(* gets an id greater than seq, the largest id assigned before the step,   *)
(* and every id in users or in auth_logs is at most seq; so a row of       *)
(* auth_logs that carries the id of a present account carries that         *)
(* account's username.                                                     *)
(***************************************************************************)
C29_IdsNeverReused ==
    [][/\ seq' >= seq
       /\ \A u \in DOMAIN users : users[u].id <= seq
       /\ \A u \in DOMAIN users' :
             (u \notin DOMAIN users \/ users'[u].id # users[u].id)
             => (users'[u].id > seq /\ users'[u].id <= seq')
       /\ \A i \in 1..Len(auth_logs') :
             auth_logs'[i].user_id # NULL
             => /\ auth_logs'[i].user_id <= seq'
                /\ \A u \in DOMAIN users' :
                      users'[u].id = auth_logs'[i].user_id
                      => u = auth_logs'[i].username]_vars

\* A deleted username has been created again under a new id, and the log
\* still holds the row written for the old account.
C29_Witness ==
    \E u \in DOMAIN users :
        /\ Called("create_user", u)
        /\ last.ret = TRUE
        /\ users[u].id = 3
        /\ \E i \in 1..Len(auth_logs) :
              /\ auth_logs[i].username = u
              /\ auth_logs[i].user_id # NULL
              /\ auth_logs[i].user_id < 3

(***************************************************************************)
(* C24.  (the claim as stated; it fails on the code)  In the main window   *)
(* the add control is enabled exactly when the session has can_create,     *)
(* the edit control exactly when it has can_update and the delete control  *)
(* exactly when it has can_delete.                                         *)
(***************************************************************************)
C24_ControlsFollowPermissions ==
    gui.window # NoWindow
    => LET permissions == gui.window.user_info.permissions
       IN  /\ gui.window.add_button = permissions["can_create"]
           /\ gui.window.edit_button = permissions["can_update"]
           /\ gui.window.delete_button = permissions["can_delete"]

(***************************************************************************)
(* C30.  The login dialog is accepted only by a submission whose           *)
(* authenticate call returned a user dict, and the main window exists      *)
(* only for an accepted dialog and shows that dict; after a submission     *)
(* whose authenticate call returned None the dialog is still running with  *)
(* the login button enabled; a submission with an empty username or an     *)
(* empty password makes no authenticate call: users and auth_logs are      *)
(* unchanged.                                                              *)
(***************************************************************************)
C30_WindowOnlyAfterLogin ==
    [][/\ (gui'.result = "Accepted" /\ gui.result # "Accepted")
          => /\ last'.op = "login"
             /\ last'.called
             /\ last'.ret # None
             /\ gui'.user_info = last'.ret
       /\ gui'.window # NoWindow
          => /\ gui'.result = "Accepted"
             /\ gui'.user_info # None
             /\ gui'.window.user_info = gui'.user_info
       /\ (last'.op = "login" /\ last'.called /\ last'.ret = None)
          => /\ gui'.result = "running"
             /\ gui'.login_button
       /\ (/\ last'.op = "login"
           /\ last'.username = "" \/ last'.password = "")
          => /\ ~last'.called
             /\ users' = users
             /\ auth_logs' = auth_logs
             /\ gui'.result = "running"]_vars

\* The main window has been created for the user account after a refused
\* submission.
C30_Witness ==
    /\ last.op = "main_window"
    /\ gui.window # NoWindow
    /\ gui.window.user_info.username = "user"
    /\ \E i \in 1..Len(auth_logs) :
          auth_logs[i] = LogRow(2, "user", "login", FALSE)
    /\ auth_logs[Len(auth_logs)] = LogRow(2, "user", "login", TRUE)

(***************************************************************************)
(* C31.  (the claim as stated; it fails on the code)  In a session that    *)
(* has can_manage_journal, after every refresh of the journal (the one of  *)
(* the window's construction, the one after an accepted release and the    *)
(* one after an accepted arrival) the register-arrival control is enabled  *)
(* whenever a trip with time_in NULL exists; so after a release in a       *)
(* session that started with no active trip the arrival can be registered. *)
(***************************************************************************)
C31_ArrivalEnabledAfterRefresh ==
    [][(/\ \/ last'.op = "main_window"
           \/ /\ last'.op \in {"release_auto", "register_arrival"}
              /\ last'.accepted
        /\ gui'.window # NoWindow
        /\ gui'.window.user_info.permissions["can_manage_journal"]
        /\ active_trips(journal') # {})
       => gui'.window.arrival_button]_vars

(***************************************************************************)
(* C32.  (the claim as stated; it fails on the code)  A connect call on a  *)
(* disconnected object makes at most max_retries attempts, returns True    *)
(* only if one of its attempts connected and passed the connection test,   *)
(* and whenever it returns False both connection and cursor are None.      *)
(***************************************************************************)
C32_ConnectLeavesNothingOpen ==
    [][(/\ last'.op = "connect"
        /\ db.connection = None
        /\ db.cursor = None)
       => /\ db'.stats.connection_attempts
                <= db.stats.connection_attempts + last'.max_retries
          /\ last'.ret = TRUE
                => \E i \in 1..last'.max_retries :
                      last'.outcomes[i] = "connected"
          /\ last'.ret = FALSE
                => /\ db'.connection = None
                   /\ db'.cursor = None]_vars

====
